---- MODULE Spec2Model ----
(***************************************************************************)
(* SBMP session layer (library/sbmp_session.c): two endpoints joined by a *)
(* pair of in-order datagram channels.  The endpoint functions are         *)
(* operators over a call record m (the endpoint struct, its framing        *)
(* transmitter, the caller's session variable and what the call emitted);  *)
(* the actions apply them to one endpoint and put the completed frames on  *)
(* the channel towards the peer.                                           *)
(***************************************************************************)
EXTENDS Integers, Naturals, Sequences, FiniteSets, TLC

VARIABLES ep, frm, usr_sesn, chan, calls, mark, last, added

vars == <<ep, frm, usr_sesn, chan, calls, mark, last, added>>

\* ---- bounds of the model ------------------------------------------------

\* user-initiated sends are enabled while the channel holds fewer frames
MaxChan == 2
\* start_handshake calls of both endpoints together
MaxHsk == 3
\* reset calls of both endpoints together
MaxReset == 1
\* listener slots handed to init_listeners
MaxSlots == 2
\* allocations an endpoint makes between two seeds in the two-endpoint runs
MaxAlloc == 3

\* ---- program constants --------------------------------------------------

HSK_PAYLOAD_LEN == 3
DATAGRA_HEADER_LEN == 3
SESN_WRAP == 32768
PEER_BUF_DEFAULT == 65535
U16 == 65536

SBMP_DG_HSK_START == 1
SBMP_DG_HSK_ACCEPT == 2
SBMP_DG_HSK_CONFLICT == 3
\* first user datagram type
DG_USER == 4

SBMP_CKSUM_NONE == 0
SBMP_CKSUM_XOR == 1
SBMP_CKSUM_CRC32 == 32
SBMP_HAS_CRC32 == TRUE

SBMP_HSK_NOT_STARTED == "NotStarted"
SBMP_HSK_AWAIT_REPLY == "AwaitReply"
SBMP_HSK_SUCCESS == "Success"
SBMP_HSK_CONFLICT == "Conflict"

\* an unused listener slot has no callback
NULL == "NULL"

Endpoints == {1, 2}
Peer(e) == 3 - e

\* ---- integer helpers (uint8_t / uint16_t arithmetic) ---------------------

RECURSIVE BitOr(_, _, _)
BitOr(a, b, n) ==
    IF n = 0 THEN 0
    ELSE (IF a % 2 = 1 \/ b % 2 = 1 THEN 1 ELSE 0) + 2 * BitOr(a \div 2, b \div 2, n - 1)

RECURSIVE BitAnd(_, _, _)
BitAnd(a, b, n) ==
    IF n = 0 THEN 0
    ELSE (IF a % 2 = 1 /\ b % 2 = 1 THEN 1 ELSE 0) + 2 * BitAnd(a \div 2, b \div 2, n - 1)

U16_LSB(x) == BitAnd(x, 255, 16)
U16_MSB(x) == BitAnd(x \div 256, 255, 16)
Bit15(s) == BitAnd(s, 32768, 16) \div 32768

\* ---- datagrams and call records ------------------------------------------

\* A datagram as it travels in one frame: the frame's checksum tag, the
\* three header bytes, the declared payload length and the first
\* HSK_PAYLOAD_LEN payload bytes (the only ones the session layer reads).
Dg(ck, sesn, type, length, payload) ==
    [cksum |-> ck, session |-> sesn, type |-> type, length |-> length, payload |-> payload]

NoDg == Dg(0, 0, 0, 0, <<>>)
FrmIdle == [busy |-> FALSE, dg |-> NoDg]

\* the state one call works on, and what it has emitted so far
Call(e) ==
    [ep |-> ep[e], frm |-> frm[e], usr |-> usr_sesn[e],
     wire |-> <<>>, started |-> <<>>, cb |-> <<>>, ret |-> TRUE]

\* ---- framing and datagram layer (transmit side) -------------------------

sbmp_frm_reset(m) == [m EXCEPT !.frm = FrmIdle]

sbmp_dg_start(m, ck, sesn, type, length) ==
    IF m.frm.busy THEN [m EXCEPT !.ret = FALSE]
    ELSE LET d == Dg(ck, sesn, type, length, <<>>)
         IN  IF length = 0
             THEN [m EXCEPT !.wire = Append(@, d), !.started = Append(@, d), !.ret = TRUE]
             ELSE [m EXCEPT !.frm = [busy |-> TRUE, dg |-> d],
                            !.started = Append(@, d), !.ret = TRUE]

sbmp_frm_send_buffer(m, buffer) ==
    IF m.frm.busy
    THEN [m EXCEPT !.wire = Append(@, [m.frm.dg EXCEPT !.payload = buffer]), !.frm = FrmIdle]
    ELSE m

\* the receiving framing layer hands a frame up when its tag is known and
\* its payload (header + data) fits the receive buffer
frm_rx_accepts(e, d) ==
    /\ d.cksum \in {SBMP_CKSUM_NONE, SBMP_CKSUM_XOR, SBMP_CKSUM_CRC32}
    /\ d.length + DATAGRA_HEADER_LEN <= ep[e].buffer_size

\* ---- endpoint: construction and settings ---------------------------------

\* variant: reset flips the origin bit
sbmp_ep_reset_Toggle(m) ==
    sbmp_frm_reset([m EXCEPT !.ep.next_session = 0, !.ep.origin = 1 - @,
                             !.ep.hsk_session = 0, !.ep.hsk_status = SBMP_HSK_NOT_STARTED,
                             !.ep.peer_buffer_size = PEER_BUF_DEFAULT])

sbmp_ep_reset(m) ==
    sbmp_frm_reset([m EXCEPT !.ep.next_session = 0, !.ep.origin = 0,
                             !.ep.hsk_session = 0, !.ep.hsk_status = SBMP_HSK_NOT_STARTED,
                             !.ep.peer_buffer_size = PEER_BUF_DEFAULT])

sbmp_ep_init(buffer_size) ==
    [listeners |-> <<>>, buffer_size |-> buffer_size,
     peer_pref_cksum |-> IF SBMP_HAS_CRC32 THEN SBMP_CKSUM_CRC32 ELSE SBMP_CKSUM_XOR,
     pref_cksum |-> IF SBMP_HAS_CRC32 THEN SBMP_CKSUM_CRC32 ELSE SBMP_CKSUM_XOR,
     next_session |-> 0, origin |-> 0, hsk_session |-> 0,
     hsk_status |-> SBMP_HSK_NOT_STARTED, peer_buffer_size |-> PEER_BUF_DEFAULT]

sbmp_ep_seed_session(m, sesn) == [m EXCEPT !.ep.next_session = BitAnd(sesn, 32767, 16)]

sbmp_ep_set_origin(m, bit) == [m EXCEPT !.ep.origin = bit]

sbmp_ep_set_preferred_cksum(m, cksum_type) ==
    [m EXCEPT !.ep.pref_cksum =
        IF cksum_type = SBMP_CKSUM_CRC32 /\ ~SBMP_HAS_CRC32 THEN SBMP_CKSUM_XOR ELSE cksum_type]

\* ---- endpoint: session numbers and sending -------------------------------

\* the session number next_session returns
next_session_value(m) == BitOr(m.ep.next_session, (m.ep.origin * 32768) % U16, 16)

\* variant: the counter is not wrapped at 0x8000
next_session_NoWrap(m) == [m EXCEPT !.ep.next_session = (m.ep.next_session + 1) % U16]

\* the endpoint after next_session
next_session(m) ==
    LET inc == (m.ep.next_session + 1) % U16
    IN  [m EXCEPT !.ep.next_session = IF inc = SESN_WRAP THEN 0 ELSE inc]

peer_accepts(m) == (m.ep.peer_buffer_size - DATAGRA_HEADER_LEN) % U16

sbmp_ep_start_response(m, type, length, sesn) ==
    IF length > peer_accepts(m) THEN [m EXCEPT !.ret = FALSE]
    ELSE sbmp_dg_start(m, m.ep.peer_pref_cksum, sesn, type, length)

\* variant: the counter is advanced only when the datagram was started
sbmp_ep_start_session_KeepOnFail(m, type, length) ==
    LET sn == next_session_value(m)
        m1 == sbmp_ep_start_response(next_session(m), type, length, sn)
    IN  IF m1.ret THEN [m1 EXCEPT !.usr = sn] ELSE [m1 EXCEPT !.ep.next_session = m.ep.next_session]

sbmp_ep_start_session(m, type, length) ==
    LET sn == next_session_value(m)
        m1 == sbmp_ep_start_response(next_session(m), type, length, sn)
    IN  IF m1.ret THEN [m1 EXCEPT !.usr = sn] ELSE m1

sbmp_ep_send_response(m, type, buffer, length, sesn) ==
    LET m1 == sbmp_ep_start_response(m, type, length, sesn)
    IN  IF m1.ret THEN sbmp_frm_send_buffer(m1, buffer) ELSE m1

\* sesn_ptr is "hsk" for &ep->hsk_session and "usr" for the caller's variable
Load(m, ptr) == IF ptr = "hsk" THEN m.ep.hsk_session ELSE m.usr
Store(m, ptr, v) == IF ptr = "hsk" THEN [m EXCEPT !.ep.hsk_session = v] ELSE [m EXCEPT !.usr = v]

\* variant: the session variable is not restored when the send fails
sbmp_ep_send_message_NoRestore(m, type, buffer, length, ptr) ==
    LET sn == next_session_value(m)
        m1 == Store(next_session(m), ptr, sn)
    IN  sbmp_ep_send_response(m1, type, buffer, length, sn)

sbmp_ep_send_message(m, type, buffer, length, ptr) ==
    LET sn == next_session_value(m)
        old_sesn == Load(m, ptr)
        m1 == Store(next_session(m), ptr, sn)
        m2 == sbmp_ep_send_response(m1, type, buffer, length, sn)
    IN  IF ~m2.ret THEN Store(m2, ptr, old_sesn) ELSE m2

\* ---- handshake -----------------------------------------------------------

populate_hsk_buf(m) ==
    <<m.ep.pref_cksum, U16_LSB(m.ep.buffer_size), U16_MSB(m.ep.buffer_size)>>

\* variant: the two size bytes are read in the wrong order
parse_peer_hsk_buf_Swapped(m, buf) ==
    [m EXCEPT !.ep.peer_pref_cksum =
                  IF buf[1] = SBMP_CKSUM_CRC32 /\ ~SBMP_HAS_CRC32 THEN SBMP_CKSUM_XOR ELSE buf[1],
              !.ep.peer_buffer_size = BitOr(buf[3], (buf[2] * 256) % U16, 16)]

parse_peer_hsk_buf(m, buf) ==
    [m EXCEPT !.ep.peer_pref_cksum =
                  IF buf[1] = SBMP_CKSUM_CRC32 /\ ~SBMP_HAS_CRC32 THEN SBMP_CKSUM_XOR ELSE buf[1],
              !.ep.peer_buffer_size = BitOr(buf[2], (buf[3] * 256) % U16, 16)]

sbmp_ep_abort_handshake(m) ==
    [m EXCEPT !.ep.hsk_session = 0, !.ep.hsk_status = SBMP_HSK_NOT_STARTED]

\* variant: a handshake that could not be started stays in AwaitReply
sbmp_ep_start_handshake_KeepAwait(m) ==
    LET m0 == sbmp_ep_abort_handshake(m)
        buf == populate_hsk_buf(m0)
        m1 == [m0 EXCEPT !.ep.hsk_status = SBMP_HSK_AWAIT_REPLY]
    IN  sbmp_ep_send_message(m1, SBMP_DG_HSK_START, buf, 3, "hsk")

sbmp_ep_start_handshake(m) ==
    LET m0 == sbmp_ep_abort_handshake(m)
        buf == populate_hsk_buf(m0)
        m1 == [m0 EXCEPT !.ep.hsk_status = SBMP_HSK_AWAIT_REPLY]
        m2 == sbmp_ep_send_message(m1, SBMP_DG_HSK_START, buf, 3, "hsk")
    IN  IF ~m2.ret THEN [m2 EXCEPT !.ep.hsk_status = SBMP_HSK_NOT_STARTED] ELSE m2

\* variant: the dispatch loop takes the last matching slot
RECURSIVE FirstListener_Last(_, _, _)
FirstListener_Last(ls, sesn, i) ==
    IF i > Len(ls) THEN 0
    ELSE LET j == FirstListener_Last(ls, sesn, i + 1)
         IN  IF j # 0 THEN j
             ELSE IF ls[i].callback # NULL /\ ls[i].session = sesn THEN i ELSE 0

\* variant: the dispatch loop takes the first used slot whatever its session
RECURSIVE FirstListener_AnySession(_, _, _)
FirstListener_AnySession(ls, sesn, i) ==
    IF i > Len(ls) THEN 0
    ELSE IF ls[i].callback # NULL THEN i
    ELSE FirstListener_AnySession(ls, sesn, i + 1)

\* index of the listener slot the dispatch loop calls, 0 when none matches
RECURSIVE FirstListener(_, _, _)
FirstListener(ls, sesn, i) ==
    IF i > Len(ls) THEN 0
    ELSE IF ls[i].callback # NULL /\ ls[i].session = sesn THEN i
    ELSE FirstListener(ls, sesn, i + 1)

\* variant: the accepting endpoint keeps its origin
hsk_on_start_KeepOrigin(m, dg) ==
    LET our_info_pld == populate_hsk_buf(m)
    IN  IF m.ep.hsk_status = SBMP_HSK_AWAIT_REPLY
        THEN [sbmp_ep_send_response(m, SBMP_DG_HSK_CONFLICT, our_info_pld,
                                    HSK_PAYLOAD_LEN, dg.session)
                 EXCEPT !.ep.hsk_status = SBMP_HSK_CONFLICT]
        ELSE LET m2 == IF dg.length >= HSK_PAYLOAD_LEN
                       THEN parse_peer_hsk_buf(m, dg.payload) ELSE m
                 m3 == [m2 EXCEPT !.ep.hsk_status = SBMP_HSK_SUCCESS]
             IN  sbmp_ep_send_response(m3, SBMP_DG_HSK_ACCEPT, our_info_pld,
                                       HSK_PAYLOAD_LEN, dg.session)

\* variant: an HSK_START is accepted even while a reply is awaited
hsk_on_start_AlwaysAccept(m, dg) ==
    LET our_info_pld == populate_hsk_buf(m)
        m1 == sbmp_ep_set_origin(m, 1 - Bit15(dg.session))
        m2 == IF dg.length >= HSK_PAYLOAD_LEN
              THEN parse_peer_hsk_buf(m1, dg.payload) ELSE m1
        m3 == [m2 EXCEPT !.ep.hsk_status = SBMP_HSK_SUCCESS]
    IN  sbmp_ep_send_response(m3, SBMP_DG_HSK_ACCEPT, our_info_pld,
                              HSK_PAYLOAD_LEN, dg.session)

\* variant: an endpoint in Conflict answers HSK_START like one in AwaitReply
hsk_on_start_ConflictBusy(m, dg) ==
    LET our_info_pld == populate_hsk_buf(m)
    IN  IF m.ep.hsk_status \in {SBMP_HSK_AWAIT_REPLY, SBMP_HSK_CONFLICT}
        THEN [sbmp_ep_send_response(m, SBMP_DG_HSK_CONFLICT, our_info_pld,
                                    HSK_PAYLOAD_LEN, dg.session)
                 EXCEPT !.ep.hsk_status = SBMP_HSK_CONFLICT]
        ELSE LET m1 == sbmp_ep_set_origin(m, 1 - Bit15(dg.session))
                 m2 == IF dg.length >= HSK_PAYLOAD_LEN
                       THEN parse_peer_hsk_buf(m1, dg.payload) ELSE m1
                 m3 == [m2 EXCEPT !.ep.hsk_status = SBMP_HSK_SUCCESS]
             IN  sbmp_ep_send_response(m3, SBMP_DG_HSK_ACCEPT, our_info_pld,
                                       HSK_PAYLOAD_LEN, dg.session)

hsk_on_start(m, dg) ==
    LET our_info_pld == populate_hsk_buf(m)
    IN  IF m.ep.hsk_status = SBMP_HSK_AWAIT_REPLY
        THEN [sbmp_ep_send_response(m, SBMP_DG_HSK_CONFLICT, our_info_pld,
                                    HSK_PAYLOAD_LEN, dg.session)
                 EXCEPT !.ep.hsk_status = SBMP_HSK_CONFLICT]
        ELSE LET m1 == sbmp_ep_set_origin(m, 1 - Bit15(dg.session))
                 m2 == IF dg.length >= HSK_PAYLOAD_LEN
                       THEN parse_peer_hsk_buf(m1, dg.payload) ELSE m1
                 m3 == [m2 EXCEPT !.ep.hsk_status = SBMP_HSK_SUCCESS]
             IN  sbmp_ep_send_response(m3, SBMP_DG_HSK_ACCEPT, our_info_pld,
                                       HSK_PAYLOAD_LEN, dg.session)

\* variant: the reply's session is not compared with hsk_session
hsk_on_accept_AnySession(m, dg) ==
    IF m.ep.hsk_status # SBMP_HSK_AWAIT_REPLY
    THEN m
    ELSE LET m1 == IF dg.length >= HSK_PAYLOAD_LEN
                   THEN parse_peer_hsk_buf(m, dg.payload) ELSE m
         IN  [m1 EXCEPT !.ep.hsk_status = SBMP_HSK_SUCCESS]

\* variant: a reply with a short payload is ignored
hsk_on_accept_RejectShort(m, dg) ==
    IF \/ m.ep.hsk_status # SBMP_HSK_AWAIT_REPLY
       \/ m.ep.hsk_session # dg.session
       \/ dg.length < HSK_PAYLOAD_LEN
    THEN m
    ELSE [parse_peer_hsk_buf(m, dg.payload) EXCEPT !.ep.hsk_status = SBMP_HSK_SUCCESS]

hsk_on_accept(m, dg) ==
    IF m.ep.hsk_status # SBMP_HSK_AWAIT_REPLY \/ m.ep.hsk_session # dg.session
    THEN m
    ELSE LET m1 == IF dg.length >= HSK_PAYLOAD_LEN
                   THEN parse_peer_hsk_buf(m, dg.payload) ELSE m
         IN  [m1 EXCEPT !.ep.hsk_status = SBMP_HSK_SUCCESS]

hsk_on_conflict(m, dg) ==
    IF m.ep.hsk_status # SBMP_HSK_AWAIT_REPLY \/ m.ep.hsk_session # dg.session
    THEN m
    ELSE [sbmp_frm_reset(m) EXCEPT !.ep.hsk_status = SBMP_HSK_CONFLICT]

\* variant: the default handler is called after the listener too
dispatch_user_Both(m, dg) ==
    LET i == FirstListener(m.ep.listeners, dg.session, 1)
    IN  IF i # 0 THEN [m EXCEPT !.cb = Append(Append(@, m.ep.listeners[i].callback), "default")]
        ELSE [m EXCEPT !.cb = Append(@, "default")]

dispatch_user(m, dg) ==
    LET i == FirstListener(m.ep.listeners, dg.session, 1)
    IN  IF i # 0 THEN [m EXCEPT !.cb = Append(@, m.ep.listeners[i].callback)]
        ELSE [m EXCEPT !.cb = Append(@, "default")]

handle_hsk_datagram(m, dg) ==
    IF dg.type = SBMP_DG_HSK_START THEN hsk_on_start(m, dg)
    ELSE IF dg.type = SBMP_DG_HSK_ACCEPT THEN hsk_on_accept(m, dg)
    ELSE IF dg.type = SBMP_DG_HSK_CONFLICT THEN hsk_on_conflict(m, dg)
    ELSE dispatch_user(m, dg)

\* ---- session listeners ---------------------------------------------------

EmptySlot == [session |-> 0, callback |-> NULL]

sbmp_ep_init_listeners(m, slot_count) ==
    [m EXCEPT !.ep.listeners = [i \in 1..slot_count |-> EmptySlot], !.ret = TRUE]

\* index of the first unused slot, 0 when there is none
RECURSIVE FirstFree(_, _)
FirstFree(ls, i) ==
    IF i > Len(ls) THEN 0
    ELSE IF ls[i].callback = NULL THEN i
    ELSE FirstFree(ls, i + 1)

\* variant: a full table has its first slot overwritten
sbmp_ep_add_listener_Overwrite(m, session, callback) ==
    LET i == FirstFree(m.ep.listeners, 1)
        k == IF i = 0 THEN 1 ELSE i
    IN  IF m.ep.listeners = <<>> THEN [m EXCEPT !.ret = FALSE]
        ELSE [m EXCEPT !.ep.listeners[k] = [session |-> session, callback |-> callback],
                       !.ret = TRUE]

sbmp_ep_add_listener(m, session, callback) ==
    LET i == FirstFree(m.ep.listeners, 1)
    IN  IF i = 0 THEN [m EXCEPT !.ret = FALSE]
        ELSE [m EXCEPT !.ep.listeners[i] = [session |-> session, callback |-> callback],
                       !.ret = TRUE]

sbmp_ep_remove_listener(m, session) ==
    LET i == FirstListener(m.ep.listeners, session, 1)
    IN  IF i = 0 THEN m ELSE [m EXCEPT !.ep.listeners[i].callback = NULL]

\* ---- the system: two endpoints and the channels between them -------------

\* frame payload of a handshake datagram: header and handshake payload
HSK_FRAME_LEN == DATAGRA_HEADER_LEN + HSK_PAYLOAD_LEN
\* seeds handed to seed_session
Seeds == {32767, 65535}
\* checksum types handed to set_preferred_cksum
CksumTypes == {SBMP_CKSUM_NONE, SBMP_CKSUM_XOR, SBMP_CKSUM_CRC32}

NoCalls == [hsk |-> 0, reset |-> 0]
NoMark == [sesn |-> 0, n |-> 0]
NoLast == [op |-> "init", e |-> 0, arg |-> NoDg, ret |-> TRUE, sn |-> 0,
           started |-> <<>>, wire |-> <<>>, cb |-> <<>>]

InitWith(sizes) ==
    /\ ep \in [Endpoints -> {sbmp_ep_init(b) : b \in sizes}]
    /\ frm = [e \in Endpoints |-> FrmIdle]
    /\ usr_sesn = [e \in Endpoints |-> 21845]
    /\ chan = [e \in Endpoints |-> <<>>]
    /\ calls = [e \in Endpoints |-> NoCalls]
    /\ mark = [e \in Endpoints |-> NoMark]
    /\ last = NoLast
    /\ added = [e \in Endpoints |-> <<>>]

Init == InitWith({HSK_FRAME_LEN - 1, HSK_FRAME_LEN, 258})

\* the live listener slots of endpoint e in the order add_listener filled
\* them, after a call that leaves the table ls
Inserted(e, ls) ==
    LET old == ep[e].listeners
        kept == SelectSeq(added[e], LAMBDA i : i <= Len(ls) /\ ls[i].callback # NULL)
        fresh == {i \in 1..Len(ls) :
                     ls[i].callback # NULL /\ (i > Len(old) \/ old[i].callback = NULL)}
    IN  IF fresh = {} THEN kept ELSE Append(kept, CHOOSE i \in fresh : TRUE)

\* write the result m of a call at endpoint e back, and put the frames it
\* completed on the channel to the peer
Commit(e, op, arg, sn, m) ==
    /\ added' = [added EXCEPT ![e] = Inserted(e, m.ep.listeners)]
    /\ ep' = [ep EXCEPT ![e] = m.ep]
    /\ frm' = [frm EXCEPT ![e] = m.frm]
    /\ usr_sesn' = [usr_sesn EXCEPT ![e] = m.usr]
    /\ chan' = [chan EXCEPT ![Peer(e)] = @ \o m.wire]
    /\ last' = [op |-> op, e |-> e, arg |-> arg, ret |-> m.ret, sn |-> sn,
                started |-> m.started, wire |-> m.wire, cb |-> m.cb]

\* the allocation window: the first session number since the counter or the
\* origin was last set, and how many were allocated since (saturating)
Allocated(e, sn) ==
    mark' = [mark EXCEPT ![e] =
                IF @.n = 0 THEN [sesn |-> sn, n |-> 1]
                ELSE [@ EXCEPT !.n = IF @ > SESN_WRAP THEN @ ELSE @ + 1]]

Unmarked(e) == mark' = [mark EXCEPT ![e] = NoMark]

StartHandshake(e) ==
    /\ calls[1].hsk + calls[2].hsk < MaxHsk
    /\ mark[e].n < MaxAlloc
    /\ Len(chan[Peer(e)]) < MaxChan
    /\ Commit(e, "start_handshake", NoDg, next_session_value(Call(e)),
              sbmp_ep_start_handshake(Call(e)))
    /\ Allocated(e, next_session_value(Call(e)))
    /\ calls' = [calls EXCEPT ![e].hsk = @ + 1]

AbortHandshake(e) ==
    /\ ep[e].hsk_status # SBMP_HSK_NOT_STARTED
    /\ Commit(e, "abort_handshake", NoDg, 0, sbmp_ep_abort_handshake(Call(e)))
    /\ UNCHANGED <<calls, mark>>

Reset(e) ==
    /\ calls[1].reset + calls[2].reset < MaxReset
    /\ Commit(e, "reset", NoDg, 0, sbmp_ep_reset(Call(e)))
    /\ Unmarked(e)
    /\ calls' = [calls EXCEPT ![e].reset = @ + 1]

SeedSession(e, sesn) ==
    /\ Commit(e, "seed_session", NoDg, sesn, sbmp_ep_seed_session(Call(e), sesn))
    /\ Unmarked(e)
    /\ UNCHANGED calls

SetOrigin(e, bit) ==
    /\ Commit(e, "set_origin", NoDg, bit, sbmp_ep_set_origin(Call(e), bit))
    /\ Unmarked(e)
    /\ UNCHANGED calls

SetPreferredCksum(e, c) ==
    /\ Commit(e, "set_preferred_cksum", NoDg, c, sbmp_ep_set_preferred_cksum(Call(e), c))
    /\ UNCHANGED <<calls, mark>>

\* ep_rx_handler: the framing layer completes the frame at the head of the
\* channel and, when it accepts it, hands the datagram to handle_hsk_datagram
Receive(e) ==
    /\ chan[e] # <<>>
    /\ LET dg == Head(chan[e])
           m == IF frm_rx_accepts(e, dg) THEN handle_hsk_datagram(Call(e), dg)
                ELSE [Call(e) EXCEPT !.ret = FALSE]
       IN  /\ ep' = [ep EXCEPT ![e] = m.ep]
           /\ frm' = [frm EXCEPT ![e] = m.frm]
           /\ usr_sesn' = [usr_sesn EXCEPT ![e] = m.usr]
           /\ chan' = [chan EXCEPT ![e] = Tail(@), ![Peer(e)] = @ \o m.wire]
           /\ last' = [op |-> "receive", e |-> e, arg |-> dg, ret |-> m.ret, sn |-> 0,
                       started |-> m.started, wire |-> m.wire, cb |-> m.cb]
           /\ IF ep'[e].origin # ep[e].origin THEN Unmarked(e) ELSE UNCHANGED mark
    /\ UNCHANGED <<calls, added>>

\* a frame damaged on the line fails its checksum and is discarded
Lose(e) ==
    /\ chan[e] # <<>>
    /\ chan' = [chan EXCEPT ![e] = Tail(@)]
    /\ last' = [NoLast EXCEPT !.op = "lose", !.e = e, !.arg = Head(chan[e])]
    /\ UNCHANGED <<ep, frm, usr_sesn, calls, mark, added>>

\* ---- calls made by the user of an endpoint --------------------------------

HskTypes == {SBMP_DG_HSK_START, SBMP_DG_HSK_ACCEPT, SBMP_DG_HSK_CONFLICT}

Msg(type, length, buffer) == [type |-> type, length |-> length, buffer |-> buffer]

\* listener callbacks
Callbacks == {"L1", "L2"}

SendMessage(e, u) ==
    /\ mark[e].n < MaxAlloc
    /\ Len(chan[Peer(e)]) < MaxChan
    /\ Commit(e, "send_message", Dg(0, 0, u.type, u.length, u.buffer),
              next_session_value(Call(e)),
              sbmp_ep_send_message(Call(e), u.type, u.buffer, u.length, "usr"))
    /\ Allocated(e, next_session_value(Call(e)))
    /\ UNCHANGED calls

SendResponse(e, u, sesn) ==
    /\ Len(chan[Peer(e)]) < MaxChan
    /\ Commit(e, "send_response", Dg(0, sesn, u.type, u.length, u.buffer), 0,
              sbmp_ep_send_response(Call(e), u.type, u.buffer, u.length, sesn))
    /\ UNCHANGED <<calls, mark>>

StartResponse(e, u, sesn) ==
    /\ Len(chan[Peer(e)]) < MaxChan
    /\ Commit(e, "start_response", Dg(0, sesn, u.type, u.length, u.buffer), 0,
              sbmp_ep_start_response(Call(e), u.type, u.length, sesn))
    /\ UNCHANGED <<calls, mark>>

StartSession(e, u) ==
    /\ Len(chan[Peer(e)]) < MaxChan
    /\ Commit(e, "start_session", Dg(0, 0, u.type, u.length, u.buffer),
              next_session_value(Call(e)),
              sbmp_ep_start_session(Call(e), u.type, u.length))
    /\ Allocated(e, next_session_value(Call(e)))
    /\ UNCHANGED calls

\* the user sends the payload of the frame started by start_response or
\* start_session
SendBuffer(e) ==
    /\ frm[e].busy
    /\ Commit(e, "send_buffer", frm[e].dg, 0,
              sbmp_frm_send_buffer(Call(e),
                  [i \in 1..(IF frm[e].dg.length < HSK_PAYLOAD_LEN THEN frm[e].dg.length
                             ELSE HSK_PAYLOAD_LEN) |-> 7]))
    /\ UNCHANGED <<calls, mark>>

InitListeners(e, n) ==
    /\ ep[e].listeners = <<>>
    /\ Commit(e, "init_listeners", NoDg, n, sbmp_ep_init_listeners(Call(e), n))
    /\ UNCHANGED <<calls, mark>>

AddListener(e, sesn, cb) ==
    /\ Commit(e, "add_listener", Dg(0, sesn, 0, 0, <<>>), 0,
              sbmp_ep_add_listener(Call(e), sesn, cb))
    /\ UNCHANGED <<calls, mark>>

RemoveListener(e, sesn) ==
    /\ Commit(e, "remove_listener", Dg(0, sesn, 0, 0, <<>>), 0,
              sbmp_ep_remove_listener(Call(e), sesn))
    /\ UNCHANGED <<calls, mark>>

\* ---- specifications ------------------------------------------------------

BothSuccess == \A e \in Endpoints : ep[e].hsk_status = SBMP_HSK_SUCCESS

\* no handshake has been started yet: the endpoints are being configured
Setup == \A e \in Endpoints : calls[e].hsk = 0

Next ==
    \/ \E e \in Endpoints : StartHandshake(e)
    \/ \E e \in Endpoints : AbortHandshake(e)
    \/ \E e \in Endpoints : Reset(e)
    \/ \E e \in Endpoints : Receive(e)
    \/ \E e \in Endpoints : Lose(e)

Spec == Init /\ [][Next]_vars

\* Listener dispatch: endpoint 2 keeps a listener table, endpoint 1 sends
\* it datagrams on chosen sessions, one in flight at a time (the dispatch of
\* a datagram does not depend on those queued behind it), among them
\* handshake replies of its user's making, and starts a handshake.
DispatchMsgs == {Msg(DG_USER, 0, <<>>), Msg(0, 1, <<7>>)}
ListenSessions == {0, 32768}

NextDispatch ==
    \/ \E n \in 1..MaxSlots : InitListeners(2, n)
    \/ \E s \in ListenSessions, cb \in Callbacks : AddListener(2, s, cb)
    \/ \E s \in ListenSessions : RemoveListener(2, s)
    \/ \E u \in DispatchMsgs, s \in ListenSessions :
          chan[2] = <<>> /\ SendResponse(1, u, s)
    \/ \E t \in {SBMP_DG_HSK_ACCEPT, SBMP_DG_HSK_CONFLICT}, s \in ListenSessions :
          chan[2] = <<>> /\ SendResponse(1, Msg(t, 0, <<>>), s)
    \/ Setup /\ StartHandshake(1)
    \/ \E e \in Endpoints : Receive(e)

SpecDispatch == InitWith({HSK_FRAME_LEN}) /\ [][NextDispatch]_vars

\* the channel hands every frame to the receiving endpoint
Delivery == \A e \in Endpoints : WF_vars(Receive(e))

\* One-sided handshake: the endpoints are configured, endpoint 1 starts a
\* handshake once, endpoint 2 never does, nothing is lost.
NextSuccess ==
    \/ \E e \in Endpoints, b \in {0, 1} : Setup /\ SetOrigin(e, b)
    \/ \E e \in Endpoints, s \in Seeds : Setup /\ SeedSession(e, s)
    \/ Setup /\ StartHandshake(1)
    \/ \E e \in Endpoints : Receive(e)

SpecSuccess == Init /\ [][NextSuccess]_vars /\ Delivery

BothConflict == \A e \in Endpoints : ep[e].hsk_status = SBMP_HSK_CONFLICT

\* Crossed handshakes: each endpoint may start its first handshake while it
\* has not yet received anything; once both are in Conflict one of them
\* retries.  Nothing is lost.
NextConflict ==
    \/ \E e \in Endpoints, s \in Seeds : Setup /\ SeedSession(e, s)
    \/ \E e \in Endpoints :
          /\ calls[e].hsk = 0
          /\ ep[e].hsk_status = SBMP_HSK_NOT_STARTED
          /\ StartHandshake(e)
    \/ \E e \in Endpoints :
          /\ BothConflict
          /\ calls[1].hsk + calls[2].hsk = 2
          /\ StartHandshake(e)
    \/ \E e \in Endpoints : Receive(e)

SpecConflict == Init /\ [][NextConflict]_vars /\ Delivery

\* Capability exchange: the endpoints choose their preferred checksums, then
\* start handshakes, reset and answer each other over an in-order channel.
NextCaps ==
    \/ \E e \in Endpoints, c \in CksumTypes : Setup /\ SetPreferredCksum(e, c)
    \/ \E e \in Endpoints : StartHandshake(e)
    \/ \E e \in Endpoints : Reset(e)
    \/ \E e \in Endpoints : BothSuccess /\ SendResponse(e, Msg(DG_USER, 1, <<7>>), 0)
    \/ \E e \in Endpoints : Receive(e)

SpecCaps == InitWith({HSK_FRAME_LEN, 258}) /\ [][NextCaps]_vars

\* Sending: endpoint 1's user sends datagrams and starts frames, endpoint 2
\* starts a handshake that tells endpoint 1 its buffer size (2 or 6 bytes).
\* The user starts a datagram when the channel has drained: the send
\* functions never look at the frames already handed to the transport.
\* 4 bytes exceed what a 6-byte peer accepts, 65535 what any peer accepts.
SendMsgs ==
    {Msg(DG_USER, 0, <<>>), Msg(DG_USER, 1, <<7>>), Msg(DG_USER, 4, <<7, 7, 7>>),
     Msg(DG_USER, 65535, <<7, 7, 7>>)}

NextSend ==
    \/ \E u \in SendMsgs : chan[2] = <<>> /\ SendMessage(1, u)
    \/ \E u \in SendMsgs : chan[2] = <<>> /\ SendResponse(1, u, 1)
    \/ \E u \in SendMsgs : chan[2] = <<>> /\ StartResponse(1, u, 1)
    \/ SendBuffer(1)
    \/ Setup /\ StartHandshake(2)
    \/ \E e \in Endpoints : Receive(e)

SpecSend == InitWith({2, HSK_FRAME_LEN}) /\ [][NextSend]_vars

\* Session allocation: endpoint 1 seeds its counter, sets its origin before
\* the first allocation of a window, resets, and allocates session numbers
\* with start_session (of a datagram too long to be started, so that nothing
\* queues up) until the counter has gone once around.
AllocSeeds == {16384, 32768, 65535}

NextAlloc ==
    \/ \E s \in AllocSeeds : SeedSession(1, s)
    \/ \E b \in {0, 1} : mark[1].n = 0 /\ SetOrigin(1, b)
    \/ Reset(1)
    \/ mark[1].n <= SESN_WRAP /\ StartSession(1, Msg(DG_USER, 65535, <<7, 7, 7>>))

SpecAlloc == InitWith({HSK_FRAME_LEN}) /\ [][NextAlloc]_vars

\* Session counter: endpoint 1's user seeds the counter, calls each of the
\* send functions (a datagram is started when the channel has drained),
\* starts a handshake and resets; endpoint 2 answers.  65535 bytes exceed
\* what any peer accepts.
CounterMsgs ==
    {Msg(DG_USER, 0, <<>>), Msg(DG_USER, 1, <<7>>), Msg(DG_USER, 65535, <<7, 7, 7>>)}

NextCounter ==
    \/ Setup /\ mark[1].n = 0 /\ SeedSession(1, SESN_WRAP - 1)
    \/ \E u \in CounterMsgs : chan[2] = <<>> /\ SendMessage(1, u)
    \/ \E u \in CounterMsgs : chan[2] = <<>> /\ mark[1].n < MaxAlloc /\ StartSession(1, u)
    \/ \E u \in CounterMsgs : chan[2] = <<>> /\ SendResponse(1, u, 1)
    \/ \E u \in CounterMsgs : chan[2] = <<>> /\ StartResponse(1, u, 1)
    \/ SendBuffer(1)
    \/ calls[1].hsk = 0 /\ StartHandshake(1)
    \/ Reset(1)
    \/ \E e \in Endpoints : Receive(e)

SpecCounter == InitWith({HSK_FRAME_LEN}) /\ [][NextCounter]_vars

\* Short handshake payloads: besides the handshake each endpoint starts,
\* the user of endpoint 2 sends handshake datagrams of its own making, with
\* fewer than HSK_PAYLOAD_LEN payload bytes, one at a time and while few
\* replies wait to be read; endpoint 1 may reset.
ShortMsgs == {Msg(SBMP_DG_HSK_START, 2, <<7, 7>>), Msg(SBMP_DG_HSK_ACCEPT, 0, <<>>)}

NextShort ==
    \/ \E e \in Endpoints : calls[e].hsk = 0 /\ StartHandshake(e)
    \/ \E u \in ShortMsgs, s \in ListenSessions :
          chan[1] = <<>> /\ Len(chan[2]) < MaxChan /\ SendResponse(2, u, s)
    \/ Reset(1)
    \/ \E e \in Endpoints : Receive(e)

SpecShort == InitWith({HSK_FRAME_LEN}) /\ [][NextShort]_vars

\* ---- claims --------------------------------------------------------------

\* C1: whenever both endpoints are in Success (origin changed only by the
\* handshake and by reset), their origin bits differ, so the session numbers
\* next_session hands out at the two endpoints differ in bit 15.
C1_SessionSpaceDisjoint ==
    BothSuccess =>
        /\ ep[1].origin # ep[2].origin
        /\ Bit15(next_session_value(Call(1))) # Bit15(next_session_value(Call(2)))

\* the last step was a receive whose frame the framing layer handed up
Delivered == last.op = "receive" /\ frm_rx_accepts(last.e, last.arg)

\* slots of endpoint e holding a live listener for session sesn
Registered(e, sesn) ==
    {i \in 1..Len(ep[e].listeners) :
        ep[e].listeners[i].callback # NULL /\ ep[e].listeners[i].session = sesn}

\* exactly one callback ran: a listener registered for the datagram's
\* session when there is one, else the default handler
RoutedByListeners ==
    LET R == Registered(last.e, last.arg.session)
    IN  /\ Len(last.cb) = 1
        /\ IF R # {} THEN last.cb[1] \in {ep[last.e].listeners[i].callback : i \in R}
           ELSE last.cb[1] = "default"

\* C5 (as stated): every received datagram on a session with a registered
\* listener goes to that listener and never to the default handler; every
\* other received datagram goes to the default handler only.
C5_ListenerPriority == Delivered => RoutedByListeners

\* C5 (amended): the same, for received datagrams whose type is not one of
\* the handshake types HSK_START, HSK_ACCEPT, HSK_CONFLICT.
C5_ListenerPriorityUserTypes ==
    (Delivered /\ last.arg.type \notin HskTypes) => RoutedByListeners

\* a user datagram arrived on a session with a live listener while another
\* slot listens to the other session
C5_Witness ==
    /\ Delivered /\ last.arg.type = DG_USER
    /\ Registered(last.e, last.arg.session) # {}
    /\ \E s \in ListenSessions : s # last.arg.session /\ Registered(last.e, s) # {}
    /\ last.cb # <<"default">>

\* endpoint e is about to receive an HSK_ACCEPT or HSK_CONFLICT it does not
\* wait for
UnexpectedReply(e) ==
    /\ chan[e] # <<>>
    /\ Head(chan[e]).type \in {SBMP_DG_HSK_ACCEPT, SBMP_DG_HSK_CONFLICT}
    /\ \/ ep[e].hsk_status # SBMP_HSK_AWAIT_REPLY
       \/ ep[e].hsk_session # Head(chan[e]).session

ReceiveStep(e) == last'.op = "receive" /\ last'.e = e /\ chan'[e] = Tail(chan[e])

\* C10: receiving an HSK_ACCEPT or HSK_CONFLICT while not in AwaitReply, or
\* on a session other than hsk_session, changes nothing in the endpoint,
\* sends nothing and calls no user handler.
C10_UnexpectedReplyIgnored ==
    [][\A e \in Endpoints :
          (UnexpectedReply(e) /\ ReceiveStep(e)) =>
              /\ ep'[e] = ep[e]
              /\ frm'[e] = frm[e]
              /\ usr_sesn'[e] = usr_sesn[e]
              /\ chan'[Peer(e)] = chan[Peer(e)]
              /\ last'.started = <<>>
              /\ last'.cb = <<>>]_vars

\* an HSK_ACCEPT on an older session was handed up while the endpoint waits
\* for the reply to its current HSK_START
C10_Witness ==
    /\ Delivered /\ last.arg.type = SBMP_DG_HSK_ACCEPT
    /\ ep[last.e].hsk_status = SBMP_HSK_AWAIT_REPLY
    /\ ep[last.e].hsk_session # last.arg.session

\* both receive buffers hold the frame of a handshake datagram
BigEnough == \A e \in Endpoints : ep[e].buffer_size >= HSK_FRAME_LEN

\* endpoint 1 has started the only handshake
OneStarted == calls[1].hsk = 1 /\ calls[2].hsk = 0

\* C3: when endpoint 1 alone starts a handshake, both buffers hold a
\* handshake frame and the channel delivers every frame in order, eventually
\* both endpoints are in Success, with endpoint 1's origin still the origin
\* bit of its HSK_START session and endpoint 2's origin the complement.
C3_HandshakeSucceeds ==
    (OneStarted /\ BigEnough) ~>
        /\ BothSuccess
        /\ ep[1].origin = Bit15(ep[1].hsk_session)
        /\ ep[2].origin = 1 - Bit15(ep[1].hsk_session)

\* the handshake completed for a starter with origin 1 whose counter had
\* been seeded
C3_Witness ==
    /\ OneStarted /\ BigEnough /\ BothSuccess
    /\ chan = [e \in Endpoints |-> <<>>]
    /\ ep[1].origin = 1 /\ ep[2].origin = 0
    /\ ep[1].hsk_session = 65535

\* both endpoints have started one handshake each, neither having received
\* the other's HSK_START before its own call
Crossed == calls[1].hsk = 1 /\ calls[2].hsk = 1

\* C2: after crossed start_handshake calls each endpoint, still in
\* AwaitReply, answers the peer's HSK_START with HSK_CONFLICT on the peer's
\* session and ignores the late HSK_CONFLICT; no step of the exchange changes
\* an origin or an hsk_session or reaches Success, and once every frame is
\* delivered both endpoints are in Conflict.
C2_CrossedStartsConflict ==
    /\ []((Crossed /\ BigEnough /\ chan = [e \in Endpoints |-> <<>>]) => BothConflict)
    /\ [][(Crossed /\ calls' = calls) =>
            \A e \in Endpoints :
                /\ ep'[e].origin = ep[e].origin
                /\ ep'[e].hsk_session = ep[e].hsk_session
                /\ ep'[e].hsk_status # SBMP_HSK_SUCCESS
                /\ (ReceiveStep(e) /\ frm_rx_accepts(e, Head(chan[e]))
                      /\ Head(chan[e]).type = SBMP_DG_HSK_START) =>
                        /\ ep[e].hsk_status = SBMP_HSK_AWAIT_REPLY
                        /\ ep'[e].hsk_status = SBMP_HSK_CONFLICT
                        /\ last'.wire = <<Dg(ep[e].peer_pref_cksum, Head(chan[e]).session,
                                             SBMP_DG_HSK_CONFLICT, HSK_PAYLOAD_LEN,
                                             populate_hsk_buf(Call(e)))>>
                /\ (ReceiveStep(e) /\ Head(chan[e]).type = SBMP_DG_HSK_CONFLICT) =>
                        ep'[e] = ep[e] /\ last'.wire = <<>>]_vars

\* both in Conflict, the last late HSK_CONFLICT just ignored, the two
\* handshake sessions different
C2_Witness ==
    /\ Crossed /\ BothConflict
    /\ chan = [e \in Endpoints |-> <<>>]
    /\ Delivered /\ last.arg.type = SBMP_DG_HSK_CONFLICT
    /\ ep[1].hsk_session # ep[2].hsk_session

\* one endpoint has called start_handshake again after the conflict
Retried == calls[1].hsk + calls[2].hsk = 3

\* C9: after a conflict has left both endpoints in Conflict and exactly one
\* of them calls start_handshake again, in-order lossless delivery leads to
\* both endpoints in Success with complementary origins.
C9_ConflictRecovery ==
    Retried ~> (BothSuccess /\ ep[1].origin # ep[2].origin)

\* recovered: both in Success after three start_handshake calls
C9_Witness ==
    /\ Retried /\ BothSuccess
    /\ chan = [e \in Endpoints |-> <<>>]
    /\ ep[1].origin # ep[2].origin

\* C4: when both endpoints are in Success after handshakes with full
\* payloads over an in-order channel (preferred checksums chosen before the
\* first handshake), each holds the other's buffer_size and pref_cksum, and
\* the datagrams just started carry the checksum type their receiver
\* prefers.
C4_CapabilitiesExchanged ==
    BothSuccess =>
        /\ \A e \in Endpoints :
              /\ ep[e].peer_buffer_size = ep[Peer(e)].buffer_size
              /\ ep[e].peer_pref_cksum = ep[Peer(e)].pref_cksum
        /\ \A i \in 1..Len(last.started) :
              last.started[i].cksum = ep[Peer(last.e)].pref_cksum

\* a user datagram was sent after a handshake between endpoints that differ
\* in buffer size and in preferred checksum
C4_Witness ==
    /\ BothSuccess
    /\ last.op = "send_response" /\ last.started # <<>>
    /\ ep[1].pref_cksum # ep[2].pref_cksum
    /\ ep[1].buffer_size # ep[2].buffer_size
    /\ ep[Peer(last.e)].pref_cksum # SBMP_CKSUM_CRC32

\* C6: whatever peer_buffer_size the endpoint holds (values below 3
\* included), a datagram is started only when its length + 3 is at most
\* peer_buffer_size.
C6_OutboundSizeLimit ==
    \A i \in 1..Len(last.started) :
        last.started[i].length + DATAGRA_HEADER_LEN <= ep[last.e].peer_buffer_size

\* the call send_message made at endpoint e in this step
SendMessageStep(e) == last'.op = "send_message" /\ last'.e = e /\ last' # last

\* C7: a failed send_message leaves the caller's session variable as it was
\* before the call; a successful one leaves in it the session number of the
\* datagram it sent.
C7_SendMessageTransactional ==
    [][\A e \in Endpoints :
          SendMessageStep(e) =>
              IF last'.ret
              THEN /\ last'.started # <<>>
                   /\ usr_sesn'[e] = last'.started[1].session
              ELSE /\ usr_sesn'[e] = usr_sesn[e]
                   /\ last'.started = <<>>]_vars

\* send_message failed because a frame was still in progress, after an
\* earlier send_message had stored a session number
C7_Witness ==
    /\ last.op = "send_message" /\ ~last.ret
    /\ frm[last.e].busy
    /\ last.arg.length = 0
    /\ usr_sesn[last.e] # 21845

\* C8: the stored counter stays in 0..0x7FFF; the session number an
\* allocation returns carries the endpoint's origin in bit 15 and the counter
\* in the low bits, the counter then being one more, 0 after 0x7FFF; the
\* k-th allocation since the counter or origin was last set returns the
\* first one's number advanced by k - 1 modulo 0x8000, so up to 0x8000
\* consecutive allocations are pairwise distinct.
C8_SessionAllocation ==
    /\ \A e \in Endpoints : ep[e].next_session \in 0..(SESN_WRAP - 1)
    /\ last.op = "start_session" =>
          LET e == last.e
              k == mark[e].n
          IN  /\ Bit15(last.sn) = ep[e].origin
              /\ last.sn \in 0..(U16 - 1)
              /\ ep[e].next_session = ((last.sn % SESN_WRAP) + 1) % SESN_WRAP
              /\ k <= SESN_WRAP =>
                    last.sn = (ep[e].origin * SESN_WRAP)
                              + ((((mark[e].sesn % SESN_WRAP) + k) - 1) % SESN_WRAP)
              /\ (1 < k /\ k <= SESN_WRAP) => last.sn # mark[e].sesn

\* 0x8000 allocations in a row at origin 1, begun at counter 0x7FFF
C8_Witness ==
    /\ last.op = "start_session"
    /\ mark[1].n = SESN_WRAP
    /\ mark[1].sesn = 65535
    /\ last.sn = 65534

\* the slot filled earliest among the live listeners for session sesn
Earliest(e, sesn) ==
    LET R == Registered(e, sesn)
        k == CHOOSE k \in 1..Len(added[e]) :
                 added[e][k] \in R /\ \A j \in 1..(k - 1) : added[e][j] \notin R
    IN  added[e][k]

\* the lowest-index slot among the live listeners for session sesn
Lowest(e, sesn) ==
    CHOOSE i \in Registered(e, sesn) : \A j \in Registered(e, sesn) : i <= j

\* a datagram that is not a handshake datagram was handed up on a session
\* several live listeners are registered for
Duplicates ==
    /\ Delivered /\ last.arg.type \notin HskTypes
    /\ Cardinality(Registered(last.e, last.arg.session)) >= 2

\* C11 (as stated): after any add_listener and remove_listener calls, a
\* datagram on a session with several live listeners is delivered only to
\* the listener that was added earliest among them.
C11_InsertionOrder ==
    Duplicates =>
        last.cb = <<ep[last.e].listeners[Earliest(last.e, last.arg.session)].callback>>

\* C11 (amended): such a datagram is delivered only to the listener in the
\* lowest-index slot among them (add_listener refills the lowest free slot,
\* so this need not be the one added earliest).
C11_SlotOrder ==
    Duplicates =>
        last.cb = <<ep[last.e].listeners[Lowest(last.e, last.arg.session)].callback>>

\* two listeners with different callbacks share the session of the datagram
\* just delivered
C11_Witness ==
    /\ Duplicates
    /\ \E i, j \in Registered(last.e, last.arg.session) :
          ep[last.e].listeners[i].callback # ep[last.e].listeners[j].callback
    /\ last.cb # <<"default">>

\* unused slots of a listener table
FreeSlots(ls) == {i \in 1..Len(ls) : ls[i].callback = NULL}

\* C12: add_listener stores (session, callback) in the lowest-index empty
\* slot and returns success; with no empty slot (a table of capacity 0
\* included) it returns failure and leaves the table as it was: the table
\* keeps its capacity and no live listener is overwritten.
C12_AddListenerFirstFree ==
    [][\A e \in Endpoints, s \in ListenSessions, cb \in Callbacks :
          (/\ last'.op = "add_listener" /\ last'.e = e /\ last'.arg.session = s
           /\ AddListener(e, s, cb)) =>
              LET ls == ep[e].listeners
              IN  /\ Len(ep'[e].listeners) = Len(ls)
                  /\ \A i \in 1..Len(ls) :
                        ls[i].callback # NULL => ep'[e].listeners[i] = ls[i]
                  /\ IF FreeSlots(ls) = {}
                     THEN ~last'.ret /\ ep'[e].listeners = ls
                     ELSE LET i == CHOOSE i \in FreeSlots(ls) :
                                       \A j \in FreeSlots(ls) : i <= j
                          IN  /\ last'.ret
                              /\ ep'[e].listeners =
                                   [ls EXCEPT ![i] = [session |-> s, callback |-> cb]]]_vars

\* add_listener failed on a table whose slots (more than one) all hold
\* live listeners
C12_Witness ==
    /\ last.op = "add_listener" /\ ~last.ret
    /\ Len(ep[last.e].listeners) >= 2
    /\ FreeSlots(ep[last.e].listeners) = {}

\* C13: from any reachable endpoint state, reset called twice in a row
\* leaves exactly the state that reset called once leaves; the state a
\* reset has just left is not changed by another reset.
C13_ResetIdempotent ==
    /\ \A e \in Endpoints :
          sbmp_ep_reset(sbmp_ep_reset(Call(e))) = sbmp_ep_reset(Call(e))
    /\ last.op = "reset" => sbmp_ep_reset(Call(last.e)) = Call(last.e)

\* reset has just been called on an endpoint that had started a handshake
\* its peer accepted and had sent user datagrams
C13_Witness ==
    /\ last.op = "reset"
    /\ calls[last.e].hsk > 0
    /\ ep[Peer(last.e)].hsk_status = SBMP_HSK_SUCCESS
    /\ usr_sesn[last.e] # 21845
    /\ ep[last.e] = sbmp_ep_init(ep[last.e].buffer_size)

\* C14: after reset the endpoint holds nothing learned from a previous
\* handshake: hsk_status, hsk_session, origin, the session counter,
\* peer_buffer_size and peer_pref_cksum are those of a freshly initialised
\* endpoint.
C14_ResetDiscardsHandshake ==
    last.op = "reset" =>
        LET fresh == sbmp_ep_init(ep[last.e].buffer_size)
        IN  /\ ep[last.e].hsk_status = SBMP_HSK_NOT_STARTED
            /\ ep[last.e].hsk_session = 0
            /\ ep[last.e].origin = 0
            /\ ep[last.e].next_session = 0
            /\ ep[last.e].peer_buffer_size = PEER_BUF_DEFAULT
            /\ ep[last.e].peer_pref_cksum = fresh.peer_pref_cksum

\* C15: whenever an endpoint moves to Success because it received HSK_START
\* on session S', whatever buffer size and checksum that HSK_START
\* advertises, it emits HSK_ACCEPT on S' carrying
\* [pref_cksum, buf_size_lo, buf_size_hi].
C15_AcceptAlwaysAnswers ==
    (/\ Delivered
     /\ last.arg.type = SBMP_DG_HSK_START
     /\ ep[last.e].hsk_status = SBMP_HSK_SUCCESS) =>
        /\ Len(last.wire) = 1
        /\ last.wire[1].type = SBMP_DG_HSK_ACCEPT
        /\ last.wire[1].session = last.arg.session
        /\ last.wire[1].length = HSK_PAYLOAD_LEN
        /\ last.wire[1].payload = populate_hsk_buf(Call(last.e))

\* endpoint e, in AwaitReply, is about to be handed an HSK_CONFLICT on its
\* hsk_session
AwaitedConflict(e) ==
    /\ chan[e] # <<>>
    /\ frm_rx_accepts(e, Head(chan[e]))
    /\ Head(chan[e]).type = SBMP_DG_HSK_CONFLICT
    /\ ep[e].hsk_status = SBMP_HSK_AWAIT_REPLY
    /\ ep[e].hsk_session = Head(chan[e]).session

\* C16: an endpoint in AwaitReply that receives HSK_CONFLICT on hsk_session
\* moves to Conflict, its framing layer is reset and its hsk_session is
\* cleared (set to 0).
C16_ConflictClearsSession ==
    [][\A e \in Endpoints :
          (AwaitedConflict(e) /\ ReceiveStep(e)) =>
              /\ ep'[e].hsk_status = SBMP_HSK_CONFLICT
              /\ frm'[e] = FrmIdle
              /\ ep'[e].hsk_session = 0]_vars

\* the HSK_START datagrams among the frames endpoint e emitted in the step
\* just taken
StartsSent(e) ==
    IF last.e = e
    THEN SelectSeq(last.wire, LAMBDA d : d.type = SBMP_DG_HSK_START)
    ELSE <<>>

\* C17: start_handshake, in any handshake state, either starts HSK_START on
\* a freshly allocated session (bit 15 the origin), leaving hsk_status =
\* AwaitReply and hsk_session that session, or returns failure with
\* hsk_status = NotStarted, hsk_session = 0 and nothing emitted; an endpoint
\* enters AwaitReply by such a call only and, while in it, keeps hsk_session
\* and emits no other HSK_START, so in AwaitReply hsk_session is the session
\* of the last HSK_START the endpoint sent.
C17_StartHandshake ==
    [][\A e \in Endpoints :
          /\ StartHandshake(e) =>
                LET sn == next_session_value(Call(e))
                IN  IF last'.ret
                    THEN /\ ep'[e].hsk_status = SBMP_HSK_AWAIT_REPLY
                         /\ ep'[e].hsk_session = sn
                         /\ Bit15(sn) = ep[e].origin
                         /\ sn % SESN_WRAP = ep[e].next_session
                         /\ last'.wire = <<Dg(ep[e].peer_pref_cksum, sn, SBMP_DG_HSK_START,
                                              HSK_PAYLOAD_LEN, populate_hsk_buf(Call(e)))>>
                    ELSE /\ ep'[e].hsk_status = SBMP_HSK_NOT_STARTED
                         /\ ep'[e].hsk_session = 0
                         /\ last'.wire = <<>> /\ last'.started = <<>>
          /\ ep'[e].hsk_status = SBMP_HSK_AWAIT_REPLY =>
                \/ /\ last'.op = "start_handshake" /\ last'.e = e /\ last'.ret
                   /\ Len(StartsSent(e)') = 1
                   /\ StartsSent(e)'[1].session = ep'[e].hsk_session
                \/ /\ ep[e].hsk_status = SBMP_HSK_AWAIT_REPLY
                   /\ ep'[e].hsk_session = ep[e].hsk_session
                   /\ StartsSent(e)' = <<>>]_vars

\* start_handshake failed at an endpoint that had accepted the handshake of
\* a peer with a 5-byte buffer
C17_Witness ==
    /\ last.op = "start_handshake" /\ ~last.ret
    /\ ep[last.e].peer_buffer_size = HSK_FRAME_LEN - 1
    /\ ep[last.e].hsk_status = SBMP_HSK_NOT_STARTED
    /\ ep[last.e].origin = 1

\* endpoint e is about to be handed a handshake datagram it accepts (an
\* HSK_START outside AwaitReply, an HSK_ACCEPT on hsk_session in AwaitReply)
\* whose payload is shorter than HSK_PAYLOAD_LEN
ShortHandshake(e) ==
    /\ chan[e] # <<>>
    /\ frm_rx_accepts(e, Head(chan[e]))
    /\ Head(chan[e]).length < HSK_PAYLOAD_LEN
    /\ \/ /\ Head(chan[e]).type = SBMP_DG_HSK_START
          /\ ep[e].hsk_status # SBMP_HSK_AWAIT_REPLY
       \/ /\ Head(chan[e]).type = SBMP_DG_HSK_ACCEPT
          /\ ep[e].hsk_status = SBMP_HSK_AWAIT_REPLY
          /\ ep[e].hsk_session = Head(chan[e]).session

\* C18 (as stated): such a datagram still moves the endpoint to Success, and
\* leaves peer_buffer_size at its default 0xFFFF.
C18_ShortPayloadDefault ==
    [][\A e \in Endpoints :
          (ShortHandshake(e) /\ ReceiveStep(e)) =>
              /\ ep'[e].hsk_status = SBMP_HSK_SUCCESS
              /\ ep'[e].peer_buffer_size = PEER_BUF_DEFAULT]_vars

\* C18 (amended): such a datagram still moves the endpoint to Success, and
\* leaves peer_buffer_size and peer_pref_cksum as they were before it
\* (0xFFFF only if no handshake since the last reset had set it).
C18_ShortPayloadKeepsPeerInfo ==
    [][\A e \in Endpoints :
          (ShortHandshake(e) /\ ReceiveStep(e)) =>
              /\ ep'[e].hsk_status = SBMP_HSK_SUCCESS
              /\ ep'[e].peer_buffer_size = ep[e].peer_buffer_size
              /\ ep'[e].peer_pref_cksum = ep[e].peer_pref_cksum]_vars

\* a short HSK_ACCEPT completed the handshake of an endpoint that holds the
\* buffer size an earlier handshake taught it
C18_Witness ==
    /\ Delivered
    /\ last.arg.type = SBMP_DG_HSK_ACCEPT
    /\ last.arg.length < HSK_PAYLOAD_LEN
    /\ ep[last.e].hsk_status = SBMP_HSK_SUCCESS
    /\ ep[last.e].hsk_session = last.arg.session
    /\ ep[last.e].peer_buffer_size = ep[Peer(last.e)].buffer_size

\* C19: an accepted datagram whose type is not HSK_START, HSK_ACCEPT or
\* HSK_CONFLICT (reserved type 0 included) invokes exactly one user
\* callback, that of the first live listener slot on its session or else the
\* default handler, and changes nothing in the endpoint; a datagram of one
\* of the three handshake types invokes no listener and no default handler,
\* whatever its session.
C19_DispatchExclusive ==
    [][\A e \in Endpoints :
          (ReceiveStep(e) /\ frm_rx_accepts(e, Head(chan[e]))) =>
              LET dg == Head(chan[e])
              IN  IF dg.type \in HskTypes
                  THEN last'.cb = <<>>
                  ELSE /\ last'.cb =
                            <<IF Registered(e, dg.session) # {}
                              THEN ep[e].listeners[Lowest(e, dg.session)].callback
                              ELSE "default">>
                       /\ ep'[e] = ep[e]
                       /\ frm'[e] = frm[e]
                       /\ last'.wire = <<>>]_vars

\* a datagram of reserved type 0 went to a listener of an endpoint that is
\* in Success, and to nothing else
C19_Witness ==
    /\ Delivered /\ last.arg.type = 0
    /\ Registered(last.e, last.arg.session) # {}
    /\ Len(last.cb) = 1 /\ last.cb # <<"default">>
    /\ ep[last.e].hsk_status = SBMP_HSK_SUCCESS

\* the session counter of endpoint e after the step is one more than before,
\* modulo 0x8000
Advanced(e) == ep'[e].next_session = (ep[e].next_session + 1) % SESN_WRAP

\* C20: every call of start_session, send_message or start_handshake
\* advances the session counter by exactly one modulo 0x8000, whether or not
\* it succeeds; start_response and send_response never change the counter.
C20_CounterAdvance ==
    [][\A e \in Endpoints :
          /\ (last'.e = e /\ last'.op \in {"start_session", "send_message", "start_handshake"})
                => Advanced(e)
          /\ (last'.e = e /\ last'.op \in {"start_response", "send_response"})
                => ep'[e].next_session = ep[e].next_session]_vars

\* a start_session that failed because the message is too long for any peer
\* took the last session number before the counter wrapped to 0
C20_Witness ==
    /\ last.op = "start_session" /\ ~last.ret
    /\ last.arg.length = 65535
    /\ last.sn = SESN_WRAP - 1
    /\ ep[last.e].next_session = 0

====
